---- MODULE Spec2Model ----
\* Model of server/server.js: the Express handlers for products, orders and
\* tracking records, the single-slot product cache they share, the Socket.IO
\* broadcasts they emit and the MongoDB collections they read and write.
\*
\* Every handler is an async function.  It runs to completion between two
\* awaits, so the model has one action for each synchronous segment of a
\* handler (the part up to its await, and the part after it) and one action
\* for the Store operation the await waits on, which the database performs
\* at a moment of its own choosing while other handlers may run.
\*
\* storeVersion, ackedVer and the fields ver, at and floor are bookkeeping
\* the properties read: which Store state a list was read from, and which
\* writes had been acknowledged when a read was issued.  No handler reads
\* them.
\*
\* sockets is the set of connected Socket.IO clients; every emitted event
\* records the clients connected when it was emitted.  load is the number
\* of requests a specification serves and how many may be in flight at once.
EXTENDS Integers, Sequences, FiniteSets, TLC

VARIABLES
    products,        \* the Product collection: a set of documents
    storeVersion,    \* number of product writes the Store has committed
    nextObjectId,    \* the next _id `new Product(...)` generates
    orders,          \* the Order collection
    tracking,        \* the Tracking collection
    productsCache,   \* <<>> for null, <<snapshot>> otherwise
    cacheTimestamp,  \* Date.now() recorded by the populate
    clock,           \* Date.now()
    reqs,            \* the requests whose handler is waiting for the Store, oldest first
    issued,          \* number of requests received so far
    res,             \* the response sent last
    ackedVer,        \* largest Store version a sent response of a product write acknowledged
    sockets,         \* the clients connected to the Socket.IO server
    events,          \* everything io.emit has published, in order
    load             \* how many requests the clients send, and how many at a time

vars == <<products, storeVersion, nextObjectId, orders, tracking,
          productsCache, cacheTimestamp, clock, reqs, issued, res, ackedVer,
          sockets, events, load>>

storeVars == <<products, storeVersion, orders, tracking>>
cacheVars == <<productsCache, cacheTimestamp>>
httpVars == <<issued, res, ackedVer>>

----------------------------------------------------------------------------
\* Bounds of the model

MaxReq == 3          \* HTTP requests issued in one behaviour
MaxInFlight == 2     \* handlers waiting for the Store at one time
MaxTicks == 2        \* clock advances in one behaviour
TickMs == 30000      \* milliseconds per clock advance
ScenarioLen == 6     \* requests one client sends one after the other
MaxClients == 2      \* browsers that connect to the Socket.IO server

\* Program constants

CACHE_DURATION == 60000
QueryLimit == 100
ScreenshotLimit == 10 * 1024 * 1024

----------------------------------------------------------------------------
\* Inputs

Widget == [name |-> "Widget", price |-> 100]

ProductBodies == {Widget}
PatchBodies == {[price |-> 120]}

\* The product the database holds when the server starts.
InitialStore == {[_id |-> 1, name |-> "Widget", price |-> 100]}

\* req.params.id: the ids a client asks for, as they appear in the URL.
ParamIds == {ToString(1)}

\* req.body of a patch: every subset of the fields of Gadget.
Gadget == [name |-> "Gadget", price |-> 120]

Restrict(rec, S) == [f \in S |-> rec[f]]

PatchSubsets == {Restrict(Gadget, S) : S \in SUBSET DOMAIN Gadget}

\* Two products as the database holds them, timestamps included; the second
\* already has the price a patch supplies.
StoredProducts ==
    {[_id |-> 1, name |-> "Widget", price |-> 100, updatedAt |-> 0],
     [_id |-> 2, name |-> "Phone", price |-> 120, updatedAt |-> 0]}

\* A catalogue of one product more than the list query asks for.
LargeStore == {[_id |-> i, name |-> "Widget", price |-> 100] : i \in 1..(QueryLimit + 1)}

\* The ids a client asks for that sends its requests one after the other:
\* the product the server started with and the first product created.
ScenarioIds == {ToString(1), ToString(2)}

NoBody == [none |-> TRUE]

\* A payment-screenshot data string, by its length and by whether it starts
\* with 'data:image/'.
ImagePrefixLen == 11
Data(len, image) == [len |-> len, image |-> image /\ len >= ImagePrefixLen]

\* req.body.paymentScreenshot: <<>> when the field is missing.
Screenshots ==
    {<<>>,
     <<[data |-> Data(0, FALSE)]>>,
     <<[data |-> Data(20, FALSE)]>>,
     <<[data |-> Data(ScreenshotLimit, TRUE)]>>,
     <<[data |-> Data(ScreenshotLimit + 1, TRUE)]>>}

OrderIds == {"ORD-1"}
QrIds == {"QR-1"}

OrderBodies == {[orderId |-> o, paymentScreenshot |-> s] : o \in OrderIds, s \in Screenshots}
OrderUpdates == {[status |-> "Shipped"]}
TrackingBodies == {[qrId |-> q, status |-> "Received"] : q \in QrIds}
TrackingUpdates == {[status |-> "Repaired"]}

----------------------------------------------------------------------------
\* Helpers

Max(a, b) == IF a >= b THEN a ELSE b

\* Mongoose casts the id of the URL to an ObjectId.
CastObjectId(s) == CHOOSE n \in 1..nextObjectId : ToString(n) = s

RECURSIVE SortDesc(_)
\* .sort({ _id: -1 }): newest document first
SortDesc(S) ==
    IF S = {} THEN <<>>
    ELSE LET m == CHOOSE d \in S : \A e \in S : e._id <= d._id
         IN <<m>> \o SortDesc(S \ {m})

\* .limit(n)
Limit(s, n) == IF Len(s) <= n THEN s ELSE SubSeq(s, 1, n)

\* products.map(p => ({...p, id: p._id.toString()}))
Transform(p) == [id |-> ToString(p._id)] @@ p

TransformAll(s) == [i \in 1..Len(s) |-> Transform(s[i])]

\* .select('-__v -updatedAt -createdAt')
Select(p) ==
    IF "updatedAt" \in DOMAIN p THEN [f \in DOMAIN p \ {"updatedAt"} |-> p[f]] ELSE p

SelectAll(s) == [i \in 1..Len(s) |-> Select(s[i])]

\* The result of Product.find().select(...).limit(100).sort({_id: -1}) at
\* this moment, with the Store version and the time it was read at.
ProductFind ==
    [list |-> SelectAll(Limit(SortDesc(products), QueryLimit)),
     ver |-> storeVersion, at |-> clock]

\* timestamps: true.  Mongoose adds updatedAt, the time of the update, to
\* the $set of an update unless the update sets it itself.
Timestamps(body, now) ==
    [f \in DOMAIN body \cup {"updatedAt"} |-> IF f \in DOMAIN body THEN body[f] ELSE now]

\* What a field holds once a document was replaced by one that lacks it.
Blank == [name |-> "", price |-> 0, updatedAt |-> 0]

\* Faulty variant of ApplySet: the body replaces the document.
ApplyOverwrite(doc, body) ==
    [f \in DOMAIN doc |-> IF f \in DOMAIN body THEN body[f]
                          ELSE IF f \in DOMAIN Blank THEN Blank[f] ELSE doc[f]]

\* { $set: body } applied to a document: only the fields of body change.
ApplySet(doc, body) ==
    [f \in DOMAIN doc |-> IF f \in DOMAIN body THEN body[f] ELSE doc[f]]

\* Faulty variant of CacheHit: only the age of the slot is looked at.
CacheHitByAge(now) == (now - cacheTimestamp) < CACHE_DURATION

\* Faulty variant of CacheHit: the window is compared with <= instead of <.
CacheHitInclusive(now) ==
    /\ productsCache # <<>>
    /\ (now - cacheTimestamp) <= CACHE_DURATION

\* productsCache && (now - cacheTimestamp) < CACHE_DURATION
CacheHit(now) ==
    /\ productsCache # <<>>
    /\ (now - cacheTimestamp) < CACHE_DURATION

\* Faulty variant of Invalidate: the write leaves the cache slot as it is.
InvalidateOmitted == productsCache

\* productsCache = null
Invalidate == <<>>

----------------------------------------------------------------------------
\* Requests

ProductWrites == {"POST /api/products", "PATCH /api/products/:id", "DELETE /api/products/:id"}

NewReq(kind, id, body) ==
    [kind |-> kind, id |-> id, body |-> body,
     pc |-> "await",     \* await, resolved, rejected while waiting; done in a response
     now |-> 0,          \* const now = Date.now() of the product list handler
     floor |-> 0,        \* product writes acknowledged before the request was issued
     result |-> <<>>,    \* what the awaited Store call resolved to
     error |-> "",       \* what the awaited Store call rejected with
     status |-> 0,       \* HTTP status of the response, 0 while there is none
     out |-> <<>>,       \* body of the response
     fromCache |-> FALSE,
     age |-> 0,
     commitVer |-> 0]    \* Store version the request's write produced

Slots == 1..MaxInFlight

\* No response has been sent yet.
NoResponse == [NewReq("", "", NoBody) EXCEPT !.pc = "none"]

\* A client may send one more request.
CanIssue == issued < load.requests /\ Len(reqs) < load.inFlight

RemoveAt(s, r) == SubSeq(s, 1, r - 1) \o SubSeq(s, r + 1, Len(s))

\* The handler of a new request reaches its await.
Suspend(req) ==
    /\ reqs' = Append(reqs, req)
    /\ issued' = issued + 1
    /\ UNCHANGED <<res, ackedVer>>

\* The handler of a new request answers without awaiting anything.
Answer(req) ==
    /\ res' = [req EXCEPT !.pc = "done"]
    /\ issued' = issued + 1
    /\ UNCHANGED <<reqs, ackedVer>>

\* The r-th waiting handler sends its response and ends.
Respond(r, response) ==
    /\ res' = [response EXCEPT !.pc = "done"]
    /\ reqs' = RemoveAt(reqs, r)
    /\ ackedVer' = IF response.kind \in ProductWrites /\ response.status = 200
                   THEN Max(ackedVer, response.commitVer) ELSE ackedVer
    /\ UNCHANGED issued

\* The Store call of the r-th waiting handler settles.
Settle(r, req) ==
    /\ reqs' = [reqs EXCEPT ![r] = req]
    /\ UNCHANGED httpVars

Awaiting(r, kind) ==
    /\ r \in 1..Len(reqs)
    /\ reqs[r].kind = kind
    /\ reqs[r].pc = "await"

Resumed(r, kind) ==
    /\ r \in 1..Len(reqs)
    /\ reqs[r].kind = kind
    /\ reqs[r].pc \in {"resolved", "rejected"}

\* io.emit(kind, payload): the event goes to the clients connected now.
Emit(kind, payload) == Append(events, [kind |-> kind, payload |-> payload, to |-> sockets])

----------------------------------------------------------------------------
Init ==
    /\ products = InitialStore
    /\ storeVersion = 0
    /\ nextObjectId = 2
    /\ orders = {}
    /\ tracking = {}
    /\ productsCache = <<>>
    /\ cacheTimestamp = 0
    /\ clock = 0
    /\ reqs = <<>>
    /\ issued = 0
    /\ res = NoResponse
    /\ ackedVer = 0
    /\ sockets = {}
    /\ events = <<>>
    /\ load = [requests |-> MaxReq, inFlight |-> MaxInFlight]

\* Time passes.
Tick ==
    /\ clock < MaxTicks * TickMs
    /\ clock' = clock + TickMs
    /\ UNCHANGED <<products, storeVersion, nextObjectId, orders, tracking,
                   productsCache, cacheTimestamp, reqs, httpVars, sockets, events, load>>


\* The awaited Store call fails: the database is unreachable, or the call
\* is still buffered when Mongoose's timeout expires.
StoreErrors == {"buffering timed out", "unavailable"}

StoreReject(r, e) ==
    /\ r \in 1..Len(reqs)
    /\ reqs[r].pc = "await"
    /\ e = "buffering timed out" => reqs[r].kind = "GET /api/products"
    /\ Settle(r, [reqs[r] EXCEPT !.pc = "rejected", !.error = e])
    /\ UNCHANGED <<storeVars, nextObjectId, cacheVars, clock, sockets, load, events>>

----------------------------------------------------------------------------
\* Socket.IO connections

\* The browsers that may connect.
Clients == 1..MaxClients

\* let connectedClients: the counter the connection handlers keep.
connectedClients == Cardinality(sockets)

\* Faulty variant of Connect: the events published so far are replayed to the
\* new client.
ConnectReplay(c) ==
    /\ c \notin sockets
    /\ sockets' = sockets \cup {c}
    /\ events' = [i \in 1..Len(events) |-> [events[i] EXCEPT !.to = @ \cup {c}]]
    /\ UNCHANGED <<storeVars, nextObjectId, cacheVars, clock, reqs, httpVars, load>>

\* io.on('connection'): a client connects.  The handler counts it and
\* registers its disconnect and error handlers; it sends the client nothing.
Connect(c) ==
    /\ c \notin sockets
    /\ sockets' = sockets \cup {c}
    /\ UNCHANGED <<storeVars, nextObjectId, cacheVars, clock, reqs, httpVars, events, load>>

\* socket.on('disconnect')
Disconnect(c) ==
    /\ c \in sockets
    /\ sockets' = sockets \ {c}
    /\ UNCHANGED <<storeVars, nextObjectId, cacheVars, clock, reqs, httpVars, events, load>>

----------------------------------------------------------------------------
\* GET /api/products

\* The handler up to its await: serve the cache, or send the query.
GetProductsStart ==
    /\ CanIssue
    /\ LET req == [NewReq("GET /api/products", "", NoBody) EXCEPT !.now = clock,
                                                                 !.floor = ackedVer]
       IN IF CacheHit(req.now)
          THEN Answer([req EXCEPT !.status = 200,
                                  !.out = productsCache,
                                  !.fromCache = TRUE,
                                  !.age = req.now - cacheTimestamp])
          ELSE Suspend(req)
    /\ UNCHANGED <<storeVars, nextObjectId, cacheVars, clock, sockets, load, events>>

\* The database runs the query.
StoreFindProducts(r) ==
    /\ Awaiting(r, "GET /api/products")
    /\ Settle(r, [reqs[r] EXCEPT !.pc = "resolved", !.result = <<ProductFind>>])
    /\ UNCHANGED <<storeVars, nextObjectId, cacheVars, clock, sockets, load, events>>

\* Faulty variant of GetProductsContinue: the catch block drops the snapshot.
GetProductsContinueDropping(r) ==
    /\ Resumed(r, "GET /api/products")
    /\ IF reqs[r].pc = "resolved"
       THEN LET found == reqs[r].result[1]
                transformedProducts == [found EXCEPT !.list = TransformAll(found.list)]
            IN /\ productsCache' = <<transformedProducts>>
               /\ cacheTimestamp' = reqs[r].now
               /\ Respond(r, [reqs[r] EXCEPT !.status = 200, !.out = <<transformedProducts>>])
       ELSE /\ Respond(r, [reqs[r] EXCEPT !.status = IF reqs[r].error = "buffering timed out"
                                                     THEN 504 ELSE 500])
            /\ productsCache' = <<>>
            /\ UNCHANGED cacheTimestamp
    /\ UNCHANGED <<storeVars, nextObjectId, clock, sockets, load, events>>

\* The handler after its await: transform, populate the cache, respond;
\* or the catch block.
GetProductsContinue(r) ==
    /\ Resumed(r, "GET /api/products")
    /\ IF reqs[r].pc = "resolved"
       THEN LET found == reqs[r].result[1]
                transformedProducts == [found EXCEPT !.list = TransformAll(found.list)]
            IN /\ productsCache' = <<transformedProducts>>
               /\ cacheTimestamp' = reqs[r].now
               /\ Respond(r, [reqs[r] EXCEPT !.status = 200, !.out = <<transformedProducts>>])
       ELSE /\ Respond(r, [reqs[r] EXCEPT !.status = IF reqs[r].error = "buffering timed out"
                                                     THEN 504 ELSE 500])
            /\ UNCHANGED cacheVars
    /\ UNCHANGED <<storeVars, nextObjectId, clock, sockets, load, events>>

----------------------------------------------------------------------------
\* POST /api/products

\* new Product(req.body) generates the _id; product.save() is sent.
PostProductStart(body) ==
    /\ CanIssue
    /\ Suspend(NewReq("POST /api/products", ToString(nextObjectId), body))
    /\ nextObjectId' = nextObjectId + 1
    /\ UNCHANGED <<storeVars, cacheVars, clock, sockets, load, events>>

\* The database inserts the document.
StoreSaveProduct(r) ==
    /\ Awaiting(r, "POST /api/products")
    /\ LET doc == [_id |-> CastObjectId(reqs[r].id),
                   name |-> reqs[r].body.name, price |-> reqs[r].body.price]
       IN /\ products' = products \cup {doc}
          /\ storeVersion' = storeVersion + 1
          /\ Settle(r, [reqs[r] EXCEPT !.pc = "resolved", !.result = <<doc>>,
                                       !.commitVer = storeVersion + 1])
    /\ UNCHANGED <<nextObjectId, orders, tracking, cacheVars, clock, sockets, load, events>>

\* After the await: invalidate, emit product-added, respond; or the catch block.
PostProductContinue(r) ==
    /\ Resumed(r, "POST /api/products")
    /\ IF reqs[r].pc = "resolved"
       THEN LET transformedProduct == Transform(reqs[r].result[1])
            IN /\ productsCache' = Invalidate
               /\ events' = Emit("product-added", transformedProduct)
               /\ Respond(r, [reqs[r] EXCEPT !.status = 200, !.out = <<transformedProduct>>])
       ELSE /\ Respond(r, [reqs[r] EXCEPT !.status = 500])
            /\ UNCHANGED <<productsCache, events>>
    /\ UNCHANGED <<storeVars, nextObjectId, cacheTimestamp, clock, sockets, load>>

----------------------------------------------------------------------------
\* PATCH /api/products/:id

PatchProductStart(id, body) ==
    /\ CanIssue
    /\ Suspend(NewReq("PATCH /api/products/:id", id, body))
    /\ UNCHANGED <<storeVars, nextObjectId, cacheVars, clock, sockets, load, events>>

\* Product.findByIdAndUpdate(id, {$set: body}, {new: true}): the updated
\* document, or null when no document has the id.
StoreUpdateProduct(r) ==
    /\ Awaiting(r, "PATCH /api/products/:id")
    /\ LET match == {d \in products : d._id = CastObjectId(reqs[r].id)}
       IN IF match = {}
          THEN /\ Settle(r, [reqs[r] EXCEPT !.pc = "resolved", !.result = <<>>])
               /\ UNCHANGED <<products, storeVersion>>
          ELSE LET old == CHOOSE d \in match : TRUE
                   new == ApplySet(old, Timestamps(reqs[r].body, clock))
               IN /\ products' = (products \ {old}) \cup {new}
                  /\ storeVersion' = storeVersion + 1
                  /\ Settle(r, [reqs[r] EXCEPT !.pc = "resolved", !.result = <<new>>,
                                               !.commitVer = storeVersion + 1])
    /\ UNCHANGED <<nextObjectId, orders, tracking, cacheVars, clock, sockets, load, events>>

\* Faulty variant of PatchProductContinue: the cache is cleared before the product
\* is looked at.
PatchProductContinueEager(r) ==
    /\ Resumed(r, "PATCH /api/products/:id")
    /\ productsCache' = Invalidate
    /\ IF reqs[r].pc = "resolved" /\ reqs[r].result # <<>>
       THEN LET transformedProduct == Transform(reqs[r].result[1])
            IN /\ events' = Emit("product-updated", transformedProduct)
               /\ Respond(r, [reqs[r] EXCEPT !.status = 200, !.out = <<transformedProduct>>])
       ELSE /\ Respond(r, [reqs[r] EXCEPT !.status = 500,
                                          !.error = IF reqs[r].pc = "resolved"
                                                    THEN "TypeError" ELSE @])
            /\ UNCHANGED events
    /\ UNCHANGED <<storeVars, nextObjectId, cacheTimestamp, clock, sockets, load>>

\* After the await.  console.log("product id: ", product._id) comes before
\* the null check: on a null product it throws a TypeError, which the catch
\* block answers with 500.
PatchProductContinue(r) ==
    /\ Resumed(r, "PATCH /api/products/:id")
    /\ IF reqs[r].pc = "resolved" /\ reqs[r].result # <<>>
       THEN LET transformedProduct == Transform(reqs[r].result[1])
            IN /\ productsCache' = Invalidate
               /\ events' = Emit("product-updated", transformedProduct)
               /\ Respond(r, [reqs[r] EXCEPT !.status = 200, !.out = <<transformedProduct>>])
       ELSE /\ Respond(r, [reqs[r] EXCEPT !.status = 500,
                                          !.error = IF reqs[r].pc = "resolved"
                                                    THEN "TypeError" ELSE @])
            /\ UNCHANGED <<productsCache, events>>
    /\ UNCHANGED <<storeVars, nextObjectId, cacheTimestamp, clock, sockets, load>>

----------------------------------------------------------------------------
\* DELETE /api/products/:id

DeleteProductStart(id) ==
    /\ CanIssue
    /\ Suspend(NewReq("DELETE /api/products/:id", id, NoBody))
    /\ UNCHANGED <<storeVars, nextObjectId, cacheVars, clock, sockets, load, events>>

\* Product.findByIdAndDelete(id): the removed document, or null.
StoreDeleteProduct(r) ==
    /\ Awaiting(r, "DELETE /api/products/:id")
    /\ LET match == {d \in products : d._id = CastObjectId(reqs[r].id)}
       IN IF match = {}
          THEN /\ Settle(r, [reqs[r] EXCEPT !.pc = "resolved", !.result = <<>>])
               /\ UNCHANGED <<products, storeVersion>>
          ELSE /\ products' = products \ match
               /\ storeVersion' = storeVersion + 1
               /\ Settle(r, [reqs[r] EXCEPT !.pc = "resolved",
                                            !.result = <<CHOOSE d \in match : TRUE>>,
                                            !.commitVer = storeVersion + 1])
    /\ UNCHANGED <<nextObjectId, orders, tracking, cacheVars, clock, sockets, load, events>>

\* Faulty variant of DeleteProductContinue: the cache is cleared before the null
\* check.
DeleteProductContinueEager(r) ==
    /\ Resumed(r, "DELETE /api/products/:id")
    /\ IF reqs[r].pc = "rejected"
       THEN /\ Respond(r, [reqs[r] EXCEPT !.status = 500])
            /\ UNCHANGED <<productsCache, events>>
       ELSE IF reqs[r].result = <<>>
       THEN /\ productsCache' = Invalidate
            /\ Respond(r, [reqs[r] EXCEPT !.status = 404, !.error = "Product not found"])
            /\ UNCHANGED events
       ELSE /\ productsCache' = Invalidate
            /\ events' = Emit("product-deleted", [id |-> reqs[r].id])
            /\ Respond(r, [reqs[r] EXCEPT !.status = 200, !.out = <<[success |-> TRUE]>>])
    /\ UNCHANGED <<storeVars, nextObjectId, cacheTimestamp, clock, sockets, load>>

\* After the await: 404 on null; else invalidate, emit product-deleted with
\* the id of the URL, respond; or the catch block.
DeleteProductContinue(r) ==
    /\ Resumed(r, "DELETE /api/products/:id")
    /\ IF reqs[r].pc = "rejected"
       THEN /\ Respond(r, [reqs[r] EXCEPT !.status = 500])
            /\ UNCHANGED <<productsCache, events>>
       ELSE IF reqs[r].result = <<>>
       THEN /\ Respond(r, [reqs[r] EXCEPT !.status = 404, !.error = "Product not found"])
            /\ UNCHANGED <<productsCache, events>>
       ELSE /\ productsCache' = Invalidate
            /\ events' = Emit("product-deleted", [id |-> reqs[r].id])
            /\ Respond(r, [reqs[r] EXCEPT !.status = 200, !.out = <<[success |-> TRUE]>>])
    /\ UNCHANGED <<storeVars, nextObjectId, cacheTimestamp, clock, sockets, load>>

----------------------------------------------------------------------------
\* GET /api/orders and GET /api/tracking

RECURSIVE Enumerate(_)
\* Order.find().sort({orderDate: -1}), Tracking.find().sort({createdAt: -1}):
\* the documents of the collection one after the other.  The dates they are
\* sorted by are not among the fields the documents of the model carry.
Enumerate(S) ==
    IF S = {} THEN <<>>
    ELSE LET d == CHOOSE e \in S : TRUE IN <<d>> \o Enumerate(S \ {d})

GetOrdersStart ==
    /\ CanIssue
    /\ Suspend(NewReq("GET /api/orders", "", NoBody))
    /\ UNCHANGED <<storeVars, nextObjectId, cacheVars, clock, sockets, load, events>>

\* The database runs the query.
StoreFindOrders(r) ==
    /\ Awaiting(r, "GET /api/orders")
    /\ Settle(r, [reqs[r] EXCEPT !.pc = "resolved", !.result = <<Enumerate(orders)>>])
    /\ UNCHANGED <<storeVars, nextObjectId, cacheVars, clock, sockets, load, events>>

\* After the await: respond with the list; or the catch block.
GetOrdersContinue(r) ==
    /\ Resumed(r, "GET /api/orders")
    /\ IF reqs[r].pc = "resolved"
       THEN Respond(r, [reqs[r] EXCEPT !.status = 200, !.out = reqs[r].result])
       ELSE Respond(r, [reqs[r] EXCEPT !.status = 500])
    /\ UNCHANGED <<storeVars, nextObjectId, cacheVars, clock, sockets, load, events>>

GetTrackingStart ==
    /\ CanIssue
    /\ Suspend(NewReq("GET /api/tracking", "", NoBody))
    /\ UNCHANGED <<storeVars, nextObjectId, cacheVars, clock, sockets, load, events>>

\* The database runs the query.
StoreFindTracking(r) ==
    /\ Awaiting(r, "GET /api/tracking")
    /\ Settle(r, [reqs[r] EXCEPT !.pc = "resolved", !.result = <<Enumerate(tracking)>>])
    /\ UNCHANGED <<storeVars, nextObjectId, cacheVars, clock, sockets, load, events>>

\* After the await: respond with the list; or the catch block.
GetTrackingContinue(r) ==
    /\ Resumed(r, "GET /api/tracking")
    /\ IF reqs[r].pc = "resolved"
       THEN Respond(r, [reqs[r] EXCEPT !.status = 200, !.out = reqs[r].result])
       ELSE Respond(r, [reqs[r] EXCEPT !.status = 500])
    /\ UNCHANGED <<storeVars, nextObjectId, cacheVars, clock, sockets, load, events>>

----------------------------------------------------------------------------
\* POST /api/orders

\* The string is truthy: it is not empty.
Truthy(data) == data.len > 0

\* Faulty variant of ScreenshotError: the size check is missing.
ScreenshotErrorNoSize(shot) ==
    IF ~(shot # <<>> /\ Truthy(shot[1].data)) THEN ""
    ELSE IF ~shot[1].data.image THEN "Invalid screenshot data format"
    ELSE ""

\* The validation of req.body.paymentScreenshot: the error it answers 400
\* with, or "" when the order goes on.
ScreenshotError(shot) ==
    IF ~(shot # <<>> /\ Truthy(shot[1].data)) THEN ""
    ELSE IF ~shot[1].data.image THEN "Invalid screenshot data format"
    ELSE IF shot[1].data.len > ScreenshotLimit THEN "Screenshot data too large"
    ELSE ""

\* The orderData object built from the request body; status is
\* req.body.status || 'Pending'.
OrderData(body) ==
    [orderId |-> body.orderId,
     status |-> "Pending",
     paymentScreenshot |->
        IF body.paymentScreenshot # <<>> /\ Truthy(body.paymentScreenshot[1].data)
        THEN <<[data |-> body.paymentScreenshot[1].data]>>
        ELSE <<>>]

\* The handler up to its await: validate the screenshot and answer 400, or
\* build the order and send order.save().
PostOrderStart(body) ==
    /\ CanIssue
    /\ LET req == NewReq("POST /api/orders", body.orderId, body)
           err == ScreenshotError(body.paymentScreenshot)
       IN IF err # ""
          THEN Answer([req EXCEPT !.status = 400, !.error = err])
          ELSE Suspend(req)
    /\ UNCHANGED <<storeVars, nextObjectId, cacheVars, clock, sockets, load, events>>

DuplicateKey == "E11000 duplicate key"

\* The database inserts the order; the unique index on orderId refuses a
\* second order with the same orderId.
StoreSaveOrder(r) ==
    /\ Awaiting(r, "POST /api/orders")
    /\ LET doc == OrderData(reqs[r].body)
       IN IF \E o \in orders : o.orderId = doc.orderId
          THEN /\ Settle(r, [reqs[r] EXCEPT !.pc = "rejected", !.error = DuplicateKey])
               /\ UNCHANGED orders
          ELSE /\ orders' = orders \cup {doc}
               /\ Settle(r, [reqs[r] EXCEPT !.pc = "resolved", !.result = <<doc>>])
    /\ UNCHANGED <<products, storeVersion, tracking, nextObjectId, cacheVars, clock, sockets, load, events>>

\* Faulty variant of PostOrderContinue: the new order clears the product cache.
PostOrderContinueClearing(r) ==
    /\ Resumed(r, "POST /api/orders")
    /\ IF reqs[r].pc = "resolved"
       THEN /\ events' = Emit("order-added", reqs[r].result[1])
            /\ productsCache' = Invalidate
            /\ Respond(r, [reqs[r] EXCEPT !.status = 200, !.out = reqs[r].result])
       ELSE /\ Respond(r, [reqs[r] EXCEPT !.status = 500])
            /\ UNCHANGED <<events, productsCache>>
    /\ UNCHANGED <<storeVars, nextObjectId, cacheTimestamp, clock, sockets, load>>

\* After the await: emit order-added, respond; or the catch block.
PostOrderContinue(r) ==
    /\ Resumed(r, "POST /api/orders")
    /\ IF reqs[r].pc = "resolved"
       THEN /\ events' = Emit("order-added", reqs[r].result[1])
            /\ Respond(r, [reqs[r] EXCEPT !.status = 200, !.out = reqs[r].result])
       ELSE /\ Respond(r, [reqs[r] EXCEPT !.status = 500])
            /\ UNCHANGED events
    /\ UNCHANGED <<storeVars, nextObjectId, cacheVars, clock, sockets, load>>

----------------------------------------------------------------------------
\* PUT /api/orders/:orderId

PutOrderStart(id, body) ==
    /\ CanIssue
    /\ Suspend(NewReq("PUT /api/orders/:orderId", id, body))
    /\ UNCHANGED <<storeVars, nextObjectId, cacheVars, clock, sockets, load, events>>

\* Order.findOneAndUpdate({orderId}, body, {new: true}): the updated order,
\* or null when no order has the orderId.
StoreUpdateOrder(r) ==
    /\ Awaiting(r, "PUT /api/orders/:orderId")
    /\ LET match == {o \in orders : o.orderId = reqs[r].id}
       IN IF match = {}
          THEN /\ Settle(r, [reqs[r] EXCEPT !.pc = "resolved", !.result = <<>>])
               /\ UNCHANGED orders
          ELSE LET old == CHOOSE o \in match : TRUE
                   new == ApplySet(old, reqs[r].body)
               IN /\ orders' = (orders \ {old}) \cup {new}
                  /\ Settle(r, [reqs[r] EXCEPT !.pc = "resolved", !.result = <<new>>])
    /\ UNCHANGED <<products, storeVersion, tracking, nextObjectId, cacheVars, clock, sockets, load, events>>

\* After the await: emit order-updated with whatever the Store returned,
\* null included, and respond with it; or the catch block.
PutOrderContinue(r) ==
    /\ Resumed(r, "PUT /api/orders/:orderId")
    /\ IF reqs[r].pc = "resolved"
       THEN /\ events' = Emit("order-updated", reqs[r].result)
            /\ Respond(r, [reqs[r] EXCEPT !.status = 200, !.out = reqs[r].result])
       ELSE /\ Respond(r, [reqs[r] EXCEPT !.status = 500])
            /\ UNCHANGED events
    /\ UNCHANGED <<storeVars, nextObjectId, cacheVars, clock, sockets, load>>

----------------------------------------------------------------------------
\* DELETE /api/orders/:orderId

DeleteOrderStart(id) ==
    /\ CanIssue
    /\ Suspend(NewReq("DELETE /api/orders/:orderId", id, NoBody))
    /\ UNCHANGED <<storeVars, nextObjectId, cacheVars, clock, sockets, load, events>>

\* Order.findOneAndDelete({orderId}): the removed order, or null.
StoreDeleteOrder(r) ==
    /\ Awaiting(r, "DELETE /api/orders/:orderId")
    /\ LET match == {o \in orders : o.orderId = reqs[r].id}
       IN /\ orders' = orders \ match
          /\ Settle(r, [reqs[r] EXCEPT !.pc = "resolved",
                                       !.result = IF match = {} THEN <<>>
                                                  ELSE <<CHOOSE o \in match : TRUE>>])
    /\ UNCHANGED <<products, storeVersion, tracking, nextObjectId, cacheVars, clock, sockets, load, events>>

\* After the await: 404 on null; else emit order-deleted, respond; or the
\* catch block.
DeleteOrderContinue(r) ==
    /\ Resumed(r, "DELETE /api/orders/:orderId")
    /\ IF reqs[r].pc = "rejected"
       THEN /\ Respond(r, [reqs[r] EXCEPT !.status = 500])
            /\ UNCHANGED events
       ELSE IF reqs[r].result = <<>>
       THEN /\ Respond(r, [reqs[r] EXCEPT !.status = 404, !.error = "Order not found"])
            /\ UNCHANGED events
       ELSE /\ events' = Emit("order-deleted", [orderId |-> reqs[r].id])
            /\ Respond(r, [reqs[r] EXCEPT !.status = 200, !.out = <<[success |-> TRUE]>>])
    /\ UNCHANGED <<storeVars, nextObjectId, cacheVars, clock, sockets, load>>

----------------------------------------------------------------------------
\* POST /api/tracking

PostTrackingStart(body) ==
    /\ CanIssue
    /\ Suspend(NewReq("POST /api/tracking", body.qrId, body))
    /\ UNCHANGED <<storeVars, nextObjectId, cacheVars, clock, sockets, load, events>>

\* The database inserts the record; the unique index on qrId refuses a
\* second record with the same qrId.
StoreSaveTracking(r) ==
    /\ Awaiting(r, "POST /api/tracking")
    /\ LET doc == reqs[r].body
       IN IF \E t \in tracking : t.qrId = doc.qrId
          THEN /\ Settle(r, [reqs[r] EXCEPT !.pc = "rejected", !.error = DuplicateKey])
               /\ UNCHANGED tracking
          ELSE /\ tracking' = tracking \cup {doc}
               /\ Settle(r, [reqs[r] EXCEPT !.pc = "resolved", !.result = <<doc>>])
    /\ UNCHANGED <<products, storeVersion, orders, nextObjectId, cacheVars, clock, sockets, load, events>>

\* After the await: emit tracking-added, respond; or the catch block.
PostTrackingContinue(r) ==
    /\ Resumed(r, "POST /api/tracking")
    /\ IF reqs[r].pc = "resolved"
       THEN /\ events' = Emit("tracking-added", reqs[r].result[1])
            /\ Respond(r, [reqs[r] EXCEPT !.status = 200, !.out = reqs[r].result])
       ELSE /\ Respond(r, [reqs[r] EXCEPT !.status = 500])
            /\ UNCHANGED events
    /\ UNCHANGED <<storeVars, nextObjectId, cacheVars, clock, sockets, load>>

----------------------------------------------------------------------------
\* PUT /api/tracking/:qrId

PutTrackingStart(id, body) ==
    /\ CanIssue
    /\ Suspend(NewReq("PUT /api/tracking/:qrId", id, body))
    /\ UNCHANGED <<storeVars, nextObjectId, cacheVars, clock, sockets, load, events>>

\* Tracking.findOneAndUpdate({qrId}, body, {new: true}): the updated record,
\* or null when no record has the qrId.
StoreUpdateTracking(r) ==
    /\ Awaiting(r, "PUT /api/tracking/:qrId")
    /\ LET match == {t \in tracking : t.qrId = reqs[r].id}
       IN IF match = {}
          THEN /\ Settle(r, [reqs[r] EXCEPT !.pc = "resolved", !.result = <<>>])
               /\ UNCHANGED tracking
          ELSE LET old == CHOOSE t \in match : TRUE
                   new == ApplySet(old, reqs[r].body)
               IN /\ tracking' = (tracking \ {old}) \cup {new}
                  /\ Settle(r, [reqs[r] EXCEPT !.pc = "resolved", !.result = <<new>>])
    /\ UNCHANGED <<products, storeVersion, orders, nextObjectId, cacheVars, clock, sockets, load, events>>

\* After the await: emit tracking-updated with whatever the Store returned,
\* null included, and respond with it; or the catch block.
PutTrackingContinue(r) ==
    /\ Resumed(r, "PUT /api/tracking/:qrId")
    /\ IF reqs[r].pc = "resolved"
       THEN /\ events' = Emit("tracking-updated", reqs[r].result)
            /\ Respond(r, [reqs[r] EXCEPT !.status = 200, !.out = reqs[r].result])
       ELSE /\ Respond(r, [reqs[r] EXCEPT !.status = 500])
            /\ UNCHANGED events
    /\ UNCHANGED <<storeVars, nextObjectId, cacheVars, clock, sockets, load>>

----------------------------------------------------------------------------
\* DELETE /api/tracking/:qrId

DeleteTrackingStart(id) ==
    /\ CanIssue
    /\ Suspend(NewReq("DELETE /api/tracking/:qrId", id, NoBody))
    /\ UNCHANGED <<storeVars, nextObjectId, cacheVars, clock, sockets, load, events>>

\* Tracking.findOneAndDelete({qrId}): the removed record, or null.
StoreDeleteTracking(r) ==
    /\ Awaiting(r, "DELETE /api/tracking/:qrId")
    /\ LET match == {t \in tracking : t.qrId = reqs[r].id}
       IN /\ tracking' = tracking \ match
          /\ Settle(r, [reqs[r] EXCEPT !.pc = "resolved",
                                       !.result = IF match = {} THEN <<>>
                                                  ELSE <<CHOOSE t \in match : TRUE>>])
    /\ UNCHANGED <<products, storeVersion, orders, nextObjectId, cacheVars, clock, sockets, load, events>>

\* After the await: emit tracking-deleted whatever the Store returned,
\* respond; or the catch block.
DeleteTrackingContinue(r) ==
    /\ Resumed(r, "DELETE /api/tracking/:qrId")
    /\ IF reqs[r].pc = "resolved"
       THEN /\ events' = Emit("tracking-deleted", [qrId |-> reqs[r].id])
            /\ Respond(r, [reqs[r] EXCEPT !.status = 200, !.out = <<[success |-> TRUE]>>])
       ELSE /\ Respond(r, [reqs[r] EXCEPT !.status = 500])
            /\ UNCHANGED events
    /\ UNCHANGED <<storeVars, nextObjectId, cacheVars, clock, sockets, load>>

----------------------------------------------------------------------------
\* The product handlers, the database and the clock.
Next ==
    \/ Tick
    \/ \E r \in Slots, e \in StoreErrors : StoreReject(r, e)
    \/ GetProductsStart
    \/ \E r \in Slots : StoreFindProducts(r)
    \/ \E r \in Slots : GetProductsContinue(r)
    \/ \E body \in ProductBodies : PostProductStart(body)
    \/ \E r \in Slots : StoreSaveProduct(r)
    \/ \E r \in Slots : PostProductContinue(r)
    \/ \E id \in ParamIds, body \in PatchBodies : PatchProductStart(id, body)
    \/ \E r \in Slots : StoreUpdateProduct(r)
    \/ \E r \in Slots : PatchProductContinue(r)
    \/ \E id \in ParamIds : DeleteProductStart(id)
    \/ \E r \in Slots : StoreDeleteProduct(r)
    \/ \E r \in Slots : DeleteProductContinue(r)

Spec == Init /\ [][Next]_vars

\* The order and tracking handlers and the database.
NextOrders ==
    \/ \E r \in Slots, e \in StoreErrors : StoreReject(r, e)
    \/ \E body \in OrderBodies : PostOrderStart(body)
    \/ \E r \in Slots : StoreSaveOrder(r)
    \/ \E r \in Slots : PostOrderContinue(r)
    \/ \E id \in OrderIds, body \in OrderUpdates : PutOrderStart(id, body)
    \/ \E r \in Slots : StoreUpdateOrder(r)
    \/ \E r \in Slots : PutOrderContinue(r)
    \/ \E id \in OrderIds : DeleteOrderStart(id)
    \/ \E r \in Slots : StoreDeleteOrder(r)
    \/ \E r \in Slots : DeleteOrderContinue(r)
    \/ \E body \in TrackingBodies : PostTrackingStart(body)
    \/ \E r \in Slots : StoreSaveTracking(r)
    \/ \E r \in Slots : PostTrackingContinue(r)
    \/ \E id \in QrIds, body \in TrackingUpdates : PutTrackingStart(id, body)
    \/ \E r \in Slots : StoreUpdateTracking(r)
    \/ \E r \in Slots : PutTrackingContinue(r)
    \/ \E id \in QrIds : DeleteTrackingStart(id)
    \/ \E r \in Slots : StoreDeleteTracking(r)
    \/ \E r \in Slots : DeleteTrackingContinue(r)

SpecOrders == Init /\ [][NextOrders]_vars

\* One client that waits for each response before it sends the next request,
\* all of it within one freshness window of the cache.
InitSequential ==
    /\ products = InitialStore
    /\ storeVersion = 0
    /\ nextObjectId = 2
    /\ orders = {}
    /\ tracking = {}
    /\ productsCache = <<>>
    /\ cacheTimestamp = 0
    /\ clock = 0
    /\ reqs = <<>>
    /\ issued = 0
    /\ res = NoResponse
    /\ ackedVer = 0
    /\ sockets = {}
    /\ events = <<>>
    /\ load = [requests |-> ScenarioLen, inFlight |-> 1]

NextSequential ==
    \/ \E r \in Slots, e \in StoreErrors : StoreReject(r, e)
    \/ GetProductsStart
    \/ \E r \in Slots : StoreFindProducts(r)
    \/ \E r \in Slots : GetProductsContinue(r)
    \/ \E body \in ProductBodies : PostProductStart(body)
    \/ \E r \in Slots : StoreSaveProduct(r)
    \/ \E r \in Slots : PostProductContinue(r)
    \/ \E id \in ScenarioIds, body \in PatchBodies : PatchProductStart(id, body)
    \/ \E r \in Slots : StoreUpdateProduct(r)
    \/ \E r \in Slots : PatchProductContinue(r)
    \/ \E id \in ScenarioIds : DeleteProductStart(id)
    \/ \E r \in Slots : StoreDeleteProduct(r)
    \/ \E r \in Slots : DeleteProductContinue(r)

SpecSequential == InitSequential /\ [][NextSequential]_vars

\* Patches of stored products, one at a time and with every subset of
\* fields, while time passes.
InitPatch ==
    /\ products = StoredProducts
    /\ storeVersion = 0
    /\ nextObjectId = 3
    /\ orders = {}
    /\ tracking = {}
    /\ productsCache = <<>>
    /\ cacheTimestamp = 0
    /\ clock = 0
    /\ reqs = <<>>
    /\ issued = 0
    /\ res = NoResponse
    /\ ackedVer = 0
    /\ sockets = {}
    /\ events = <<>>
    /\ load = [requests |-> MaxReq, inFlight |-> 1]

NextPatch ==
    \/ Tick
    \/ \E r \in Slots : StoreReject(r, "unavailable")
    \/ \E id \in ScenarioIds, body \in PatchSubsets : PatchProductStart(id, body)
    \/ \E r \in Slots : StoreUpdateProduct(r)
    \/ \E r \in Slots : PatchProductContinue(r)

SpecPatch == InitPatch /\ [][NextPatch]_vars

\* The same patches, several of them waiting for the Store at one time.
InitConcurrentPatch ==
    /\ products = StoredProducts
    /\ storeVersion = 0
    /\ nextObjectId = 3
    /\ orders = {}
    /\ tracking = {}
    /\ productsCache = <<>>
    /\ cacheTimestamp = 0
    /\ clock = 0
    /\ reqs = <<>>
    /\ issued = 0
    /\ res = NoResponse
    /\ ackedVer = 0
    /\ sockets = {}
    /\ events = <<>>
    /\ load = [requests |-> MaxReq, inFlight |-> MaxInFlight]

SpecConcurrentPatch == InitConcurrentPatch /\ [][NextPatch]_vars

\* List reads and deletes on a large catalogue.
InitCatalog ==
    /\ products = LargeStore
    /\ storeVersion = 0
    /\ nextObjectId = QueryLimit + 2
    /\ orders = {}
    /\ tracking = {}
    /\ productsCache = <<>>
    /\ cacheTimestamp = 0
    /\ clock = 0
    /\ reqs = <<>>
    /\ issued = 0
    /\ res = NoResponse
    /\ ackedVer = 0
    /\ sockets = {}
    /\ events = <<>>
    /\ load = [requests |-> MaxReq, inFlight |-> MaxInFlight]

NextCatalog ==
    \/ Tick
    \/ \E r \in Slots, e \in StoreErrors : StoreReject(r, e)
    \/ GetProductsStart
    \/ \E r \in Slots : StoreFindProducts(r)
    \/ \E r \in Slots : GetProductsContinue(r)
    \/ \E id \in ParamIds : DeleteProductStart(id)
    \/ \E r \in Slots : StoreDeleteProduct(r)
    \/ \E r \in Slots : DeleteProductContinue(r)

SpecCatalog == InitCatalog /\ [][NextCatalog]_vars

\* The server of Init, serving one request less.
InitShop ==
    /\ products = InitialStore
    /\ storeVersion = 0
    /\ nextObjectId = 2
    /\ orders = {}
    /\ tracking = {}
    /\ productsCache = <<>>
    /\ cacheTimestamp = 0
    /\ clock = 0
    /\ reqs = <<>>
    /\ issued = 0
    /\ res = NoResponse
    /\ ackedVer = 0
    /\ sockets = {}
    /\ events = <<>>
    /\ load = [requests |-> MaxReq - 1, inFlight |-> MaxInFlight]

\* The order and tracking handlers, their list reads included, next to
\* product list reads that fill the cache.
NextShop ==
    \/ NextOrders
    \/ GetOrdersStart
    \/ \E r \in Slots : StoreFindOrders(r)
    \/ \E r \in Slots : GetOrdersContinue(r)
    \/ GetTrackingStart
    \/ \E r \in Slots : StoreFindTracking(r)
    \/ \E r \in Slots : GetTrackingContinue(r)
    \/ GetProductsStart
    \/ \E r \in Slots : StoreFindProducts(r)
    \/ \E r \in Slots : GetProductsContinue(r)

SpecShop == InitShop /\ [][NextShop]_vars

\* List reads and creates, one request more than in Spec; every write is a
\* create, which changes the Store unless the Store fails.
InitReads ==
    /\ products = InitialStore
    /\ storeVersion = 0
    /\ nextObjectId = 2
    /\ orders = {}
    /\ tracking = {}
    /\ productsCache = <<>>
    /\ cacheTimestamp = 0
    /\ clock = 0
    /\ reqs = <<>>
    /\ issued = 0
    /\ res = NoResponse
    /\ ackedVer = 0
    /\ sockets = {}
    /\ events = <<>>
    /\ load = [requests |-> MaxReq + 1, inFlight |-> MaxInFlight]

NextReads ==
    \/ Tick
    \/ \E r \in Slots, e \in StoreErrors : StoreReject(r, e)
    \/ GetProductsStart
    \/ \E r \in Slots : StoreFindProducts(r)
    \/ \E r \in Slots : GetProductsContinue(r)
    \/ \E body \in ProductBodies : PostProductStart(body)
    \/ \E r \in Slots : StoreSaveProduct(r)
    \/ \E r \in Slots : PostProductContinue(r)

SpecReads == InitReads /\ [][NextReads]_vars

\* Clients that connect and disconnect while products are created and
\* deleted, one request at a time.
InitBus ==
    /\ products = InitialStore
    /\ storeVersion = 0
    /\ nextObjectId = 2
    /\ orders = {}
    /\ tracking = {}
    /\ productsCache = <<>>
    /\ cacheTimestamp = 0
    /\ clock = 0
    /\ reqs = <<>>
    /\ issued = 0
    /\ res = NoResponse
    /\ ackedVer = 0
    /\ sockets = {}
    /\ events = <<>>
    /\ load = [requests |-> MaxReq, inFlight |-> 1]

NextBus ==
    \/ \E c \in Clients : Connect(c)
    \/ \E c \in Clients : Disconnect(c)
    \/ \E r \in Slots : StoreReject(r, "unavailable")
    \/ \E body \in ProductBodies : PostProductStart(body)
    \/ \E r \in Slots : StoreSaveProduct(r)
    \/ \E r \in Slots : PostProductContinue(r)
    \/ \E id \in ParamIds : DeleteProductStart(id)
    \/ \E r \in Slots : StoreDeleteProduct(r)
    \/ \E r \in Slots : DeleteProductContinue(r)

SpecBus == InitBus /\ [][NextBus]_vars

----------------------------------------------------------------------------
\* Vocabulary of the properties

\* Number of responses sent so far.
Answered == issued - Len(reqs)

\* A response is sent in this step; res' is that response.
Responds == issued' - Len(reqs') > Answered

\* The event the handler of a successful product write publishes.
EventKindOf(kind) ==
    IF kind = "POST /api/products" THEN "product-added"
    ELSE IF kind = "PATCH /api/products/:id" THEN "product-updated"
    ELSE "product-deleted"

ProductEvents == {"product-added", "product-updated", "product-deleted"}

\* The Store call of the request resolved (it did not reject) and matched
\* no document.
MatchedNothing(q) == q.result = <<>> /\ q.error \notin StoreErrors /\ q.error # DuplicateKey

----------------------------------------------------------------------------
\* C1: a product list read issued after the response of a product write
\* returns a list that reflects that write and all writes before it: the
\* Store version of every list returned is at least the largest version a
\* write response had acknowledged when the read was issued.
NoStalenessRegression ==
    (res.kind = "GET /api/products" /\ res.status = 200)
        => res.out[1].ver >= res.floor

\* C2: a late populate never resurrects invalidated data: the cache is
\* absent or holds a snapshot taken after every write whose invalidation
\* has run.
NoResurrection ==
    productsCache # <<>> => productsCache[1].ver >= ackedVer

\* C3: in every successful product write the Store write completes, then
\* the cache is cleared, then the matching event is published, then the
\* response is sent: the step that sends the response starts from a
\* completed Store write, leaves the cache absent and publishes the matching
\* event, and no product event is published in any other step.
WriteOrder ==
    [][/\ (Responds /\ res'.kind \in ProductWrites /\ res'.status = 200) =>
            /\ res'.result # <<>>
            /\ res'.commitVer \in 1..storeVersion
            /\ productsCache' = <<>>
            /\ Len(events') = Len(events) + 1
            /\ events'[Len(events')].kind = EventKindOf(res'.kind)
       /\ (events' # events /\ events'[Len(events')].kind \in ProductEvents) =>
            /\ Responds
            /\ res'.kind \in ProductWrites
            /\ res'.status = 200
            /\ productsCache' = <<>>]_vars

\* C3 witness: the one product write that succeeded so far cleared a cache
\* that a read had populated.
WriteOrderWitness ==
    /\ res.kind \in ProductWrites /\ res.status = 200
    /\ Len(events) = 1
    /\ cacheTimestamp > 0
    /\ productsCache = <<>>

\* C4: a patch of an id that resolves to no product is answered 404.
PatchMissingIsNotFound ==
    (res.kind = "PATCH /api/products/:id" /\ MatchedNothing(res))
        => res.status = 404

\* C5: deleting an id that resolves to no product is answered 404, leaves
\* the cache slot and its timestamp as they were and publishes nothing.
DeleteMissingChangesNothing ==
    [][(Responds /\ res'.kind = "DELETE /api/products/:id" /\ MatchedNothing(res'))
          => /\ res'.status = 404
             /\ UNCHANGED <<productsCache, cacheTimestamp, events>>]_vars

\* C5 witness: the last response is the 404 of a delete and the snapshot a
\* read had populated is still there.
DeleteMissingWitness ==
    /\ res.kind = "DELETE /api/products/:id" /\ MatchedNothing(res)
    /\ res.status = 404
    /\ productsCache # <<>>

\* C7: a list is served from the cache only when a snapshot is present and
\* younger than the freshness window, and the Store state a snapshot
\* represents is never older than the time recorded with it.
FreshWhenServed ==
    /\ (res.kind = "GET /api/products" /\ res.fromCache)
          => /\ res.out # <<>>
             /\ res.age < CACHE_DURATION
             /\ res.out[1].at >= res.now - res.age
    /\ productsCache # <<>> => productsCache[1].at >= cacheTimestamp

\* C7 witness: a list was served from a snapshot that had aged.
FreshWhenServedWitness ==
    /\ res.kind = "GET /api/products" /\ res.fromCache
    /\ res.age > 0

\* C8: a product write that ends in an error leaves the cache slot and its
\* timestamp unchanged and publishes nothing.
FailedWriteChangesNothing ==
    [][(Responds /\ res'.kind \in ProductWrites /\ res'.status >= 400)
          => UNCHANGED <<productsCache, cacheTimestamp, events>>]_vars

\* C8 witness: a patch of a missing id ended in an error while a snapshot
\* was cached.
FailedWriteWitness ==
    /\ res.kind = "PATCH /api/products/:id" /\ MatchedNothing(res)
    /\ res.status >= 400
    /\ productsCache # <<>>

\* C6: an update of an order or of a tracking record whose key no record
\* has is answered with a not-found error, not with a success.
UpdateMissingIsNotFound ==
    (/\ res.kind \in {"PUT /api/orders/:orderId", "PUT /api/tracking/:qrId"}
     /\ MatchedNothing(res))
        => res.status = 404

\* C9: a create whose orderId or qrId the Store already holds is answered
\* with a client error (4xx); the Store is unchanged and nothing is
\* published.
DuplicateCreateIsClientError ==
    [][(/\ Responds
        /\ res'.kind \in {"POST /api/orders", "POST /api/tracking"}
        /\ res'.error = DuplicateKey)
          => /\ res'.status \in 400..499
             /\ UNCHANGED <<orders, tracking, events>>]_vars

\* The screenshot payload is there, and is longer than 10 MiB or does not
\* start as image data.
BadScreenshot(shot) ==
    /\ shot # <<>>
    /\ shot[1].data.len > 0
    /\ (shot[1].data.len > ScreenshotLimit \/ ~shot[1].data.image)

\* C10: an order creation whose screenshot payload is longer than 10 MiB, or
\* is there but does not declare itself as image data, is answered 400; it
\* never reaches the Store, no order is stored with such a payload and no
\* order-added event carries one.
BadScreenshotRejected ==
    /\ (res.kind = "POST /api/orders" /\ BadScreenshot(res.body.paymentScreenshot))
          => res.status = 400 /\ res.result = <<>>
    /\ \A r \in 1..Len(reqs) :
          reqs[r].kind = "POST /api/orders" => ~BadScreenshot(reqs[r].body.paymentScreenshot)
    /\ \A o \in orders : ~BadScreenshot(o.paymentScreenshot)
    /\ \A i \in 1..Len(events) :
          events[i].kind = "order-added" => ~BadScreenshot(events[i].payload.paymentScreenshot)

\* C10 witness: an oversized screenshot was refused after an order with a
\* screenshot of exactly 10 MiB had been stored and announced.
BadScreenshotWitness ==
    /\ res.kind = "POST /api/orders"
    /\ res.body.paymentScreenshot # <<>>
    /\ res.body.paymentScreenshot[1].data.len > ScreenshotLimit
    /\ res.status = 400
    /\ \E o \in orders :
          /\ o.paymentScreenshot # <<>>
          /\ o.paymentScreenshot[1].data.len = ScreenshotLimit
    /\ events # <<>>

\* The entries of a returned list that have the id.
Listed(out, id) == {i \in 1..Len(out[1].list) : out[1].list[i].id = id}

\* The event published last.
LastEvent(log) == log[Len(log)]

\* C11: with one request at a time, a create publishes product-added
\* carrying the assigned identity and the list read next contains the new
\* product; a patch publishes product-updated and the list read next shows
\* the patched price, no patch changing a name; a delete publishes
\* product-deleted carrying the id alone and the list read next does not
\* contain the product.
SequentialScenario ==
    [][/\ (Responds /\ res'.status = 200 /\ res'.kind = "POST /api/products") =>
            /\ Len(events') = Len(events) + 1
            /\ LastEvent(events').kind = "product-added"
            /\ LastEvent(events').payload = res'.out[1]
            /\ LastEvent(events').payload.id = res'.id
            /\ LastEvent(events').payload._id = CastObjectId(res'.id)
       /\ (Responds /\ res'.status = 200 /\ res'.kind = "PATCH /api/products/:id") =>
            /\ Len(events') = Len(events) + 1
            /\ LastEvent(events').kind = "product-updated"
            /\ LastEvent(events').payload = res'.out[1]
            /\ LastEvent(events').payload.id = res'.id
            /\ LastEvent(events').payload.price = res'.body.price
       /\ (Responds /\ res'.status = 200 /\ res'.kind = "DELETE /api/products/:id") =>
            /\ Len(events') = Len(events) + 1
            /\ LastEvent(events').kind = "product-deleted"
            /\ LastEvent(events').payload = [id |-> res'.id]
       /\ \A p \in products, q \in products' : q._id = p._id => q.name = p.name
       /\ (/\ Responds /\ res'.status = 200 /\ res'.kind = "GET /api/products"
           /\ res.status = 200 /\ res.kind \in ProductWrites) =>
            /\ ~res'.fromCache
            /\ res.kind = "POST /api/products" =>
                  \E i \in Listed(res'.out, res.id) :
                        /\ res'.out[1].list[i]._id = res.out[1]._id
                        /\ res'.out[1].list[i].name = res.body.name
                        /\ res'.out[1].list[i].price = res.body.price
            /\ res.kind = "PATCH /api/products/:id" =>
                  /\ Listed(res'.out, res.id) # {}
                  /\ \A i \in Listed(res'.out, res.id) :
                        /\ res'.out[1].list[i].price = res.body.price
                        /\ res'.out[1].list[i].name = res.out[1].name
            /\ res.kind = "DELETE /api/products/:id" =>
                  Listed(res'.out, res.id) = {}]_vars

\* C11 witness: six requests were answered, the last of them a list read;
\* the first product created was then patched and then deleted, each write
\* publishing its event, and the list read last does not contain it.
SequentialScenarioWitness ==
    /\ issued = ScenarioLen /\ reqs = <<>>
    /\ res.kind = "GET /api/products" /\ res.status = 200
    /\ Len(events) = 3
    /\ events[1].kind = "product-added" /\ events[1].payload.id = ToString(2)
    /\ events[2].kind = "product-updated" /\ events[2].payload.id = ToString(2)
    /\ events[3].kind = "product-deleted" /\ events[3].payload.id = ToString(2)
    /\ storeVersion = 3
    /\ Listed(res.out, ToString(2)) = {}
    /\ Listed(res.out, ToString(1)) # {}

\* The Store applies the patch of the r-th waiting handler in this step.
PatchApplied(r) ==
    /\ Awaiting(r, "PATCH /api/products/:id")
    /\ Len(reqs') = Len(reqs)
    /\ reqs'[r].pc = "resolved"
    /\ reqs'[r].result # <<>>

\* The document of the collection that has the id.
Stored(S, id) == CHOOSE d \in S : d._id = id

\* The fields of a stored product Mongoose maintains by itself.
Maintained == {"updatedAt"}

\* The patch the r-th waiting handler sent turns the stored document old
\* into new: the supplied fields have the supplied values, and the fields
\* of Kept that were not supplied are as before.
Merged(r, Kept) ==
    LET id == CastObjectId(reqs[r].id)
        old == Stored(products, id)
        new == Stored(products', id)
        body == reqs[r].body
    IN /\ DOMAIN new = DOMAIN old
       /\ \A f \in DOMAIN old \cap DOMAIN body : new[f] = body[f]
       /\ \A f \in Kept \ DOMAIN body : new[f] = old[f]
       /\ products' \ {new} = products \ {old}

\* C12 as stated: a patch changes only the fields supplied in the request:
\* each field of the stored record that is not in the body has the value it
\* had before, and each supplied field has the supplied value.
PatchChangesOnlySupplied ==
    [][\A r \in Slots : PatchApplied(r) =>
          Merged(r, DOMAIN Stored(products, CastObjectId(reqs[r].id)))]_vars

\* C12 amended: as stated, for every field but updatedAt, the timestamp
\* Mongoose refreshes with every patch.
PatchChangesOnlySuppliedAndUpdatedAt ==
    [][\A r \in Slots : PatchApplied(r) =>
          Merged(r, DOMAIN Stored(products, CastObjectId(reqs[r].id)) \ Maintained)]_vars

\* C12 witness: a patch that supplied the name alone was answered after time
\* had passed: the name is the supplied one, the price is the one stored
\* before, and the other product is as it was.
PatchWitness ==
    /\ res.kind = "PATCH /api/products/:id" /\ res.status = 200
    /\ DOMAIN res.body = {"name"}
    /\ res.id = ToString(1)
    /\ res.out[1].name = "Gadget"
    /\ res.out[1].price = 100
    /\ res.out[1].updatedAt > 0
    /\ \E d \in products : d._id = 2 /\ d.name = "Phone" /\ d.updatedAt = 0

\* The Store answers the list query of the r-th waiting handler in this step.
FindApplied(r) ==
    /\ Awaiting(r, "GET /api/products")
    /\ Len(reqs') = Len(reqs)
    /\ reqs'[r].pc = "resolved"

\* C13: on a cache miss the list read returns every product the Store holds
\* when it is queried, newest first, and installs exactly the list it
\* returns as the cached snapshot; no stored product is missing from the
\* list, however many products there are.
MissListsEveryProduct ==
    [][/\ \A r \in Slots : FindApplied(r) =>
             LET list == reqs'[r].result[1].list
             IN /\ \A d \in products : \E i \in 1..Len(list) : list[i]._id = d._id
                /\ \A i \in 1..Len(list) : \E d \in products : list[i] = Select(d)
                /\ \A i, j \in 1..Len(list) : i < j => list[i]._id > list[j]._id
       /\ (Responds /\ res'.kind = "GET /api/products" /\ res'.status = 200
            /\ ~res'.fromCache) =>
             /\ productsCache' = res'.out
             /\ res'.out[1].list = TransformAll(res'.result[1].list)]_vars

\* C14: each publish delivers the event to every client connected at the
\* moment of the publish and to no other, once; what was published is never
\* delivered again, so a client that connects later receives none of the
\* earlier events.
BroadcastToConnected ==
    [][/\ Len(events') \in {Len(events), Len(events) + 1}
       /\ \A i \in 1..Len(events) : events'[i] = events[i]
       /\ Len(events') = Len(events) + 1 =>
             /\ LastEvent(events').to = sockets
             /\ sockets' = sockets]_vars

\* C14 witness: a first event went to the one client connected then, a
\* second event to both clients; the first was not delivered to the client
\* that connected after it.
BroadcastWitness ==
    /\ Len(events) = 2
    /\ events[1].to = {1}
    /\ events[2].to = {1, 2}
    /\ connectedClients = 2

\* C15: a product list read whose Store query fails or times out is
\* answered with an error and changes nothing: neither the step in which
\* the query fails nor the step that answers changes the cache slot or its
\* timestamp or publishes an event.
FailedReadChangesNothing ==
    [][/\ (Responds /\ res'.kind = "GET /api/products" /\ res'.error \in StoreErrors) =>
             /\ res'.status = IF res'.error = "buffering timed out" THEN 504 ELSE 500
             /\ res'.out = <<>>
             /\ UNCHANGED <<productsCache, cacheTimestamp, events>>
       /\ (\E r \in 1..Len(reqs) :
              /\ Awaiting(r, "GET /api/products")
              /\ Len(reqs') = Len(reqs)
              /\ reqs'[r].pc = "rejected") =>
             UNCHANGED <<productsCache, cacheTimestamp, events>>]_vars

\* C15 witness: a list read timed out and was answered 504 while the
\* snapshot another read had installed was in the cache.
FailedReadWitness ==
    /\ res.kind = "GET /api/products" /\ res.error = "buffering timed out"
    /\ res.status = 504
    /\ productsCache # <<>>

\* The response sent last answered a list read, and from the moment the
\* list read q was issued and from the moment that read was issued up to now
\* the Store has not changed, no product write was answered and none is
\* waiting.
QuietSince(q) ==
    /\ res.kind = "GET /api/products" /\ res.status = 200
    /\ storeVersion = ackedVer
    /\ ackedVer = res.floor
    /\ ackedVer = q.floor
    /\ \A i \in 1..Len(reqs) : reqs[i].kind = "GET /api/products"

\* C16: two product list reads answered one after the other, the second
\* less than a freshness window after the first was issued, with no product
\* write and no Store change between them, return identical lists, whether
\* or not they overlap and whether they hit or miss the cache.
ReadsAgree ==
    [][(/\ Responds /\ res'.kind = "GET /api/products" /\ res'.status = 200
        /\ QuietSince(res')
        /\ clock - res.now < CACHE_DURATION
        /\ clock - res'.now < CACHE_DURATION)
          => res'.out[1].list = res.out[1].list]_vars

\* A list read is received in this step.
ReadIssued ==
    /\ issued' = issued + 1
    /\ IF Len(reqs') > Len(reqs) THEN reqs'[Len(reqs')].kind = "GET /api/products"
       ELSE res'.kind = "GET /api/products"

\* C17: invalidation is idempotent: whatever the cache holds, and also when
\* a write has just cleared it, the clearing of a successful write leaves
\* the slot absent and the timestamp as it was, and a list read received
\* while the slot is absent is a miss.
InvalidateIdempotent ==
    [][/\ (Responds /\ res'.kind \in ProductWrites /\ res'.status = 200) =>
             /\ productsCache' = <<>>
             /\ cacheTimestamp' = cacheTimestamp
       /\ (ReadIssued /\ productsCache = <<>>) =>
             /\ Len(reqs') = Len(reqs) + 1
             /\ UNCHANGED res]_vars

\* C17 witness: two writes cleared the cache one after the other, no read
\* having installed a snapshot before or between them, and the list read
\* received since then missed and waits for the Store.
InvalidateTwiceWitness ==
    /\ ackedVer = 2
    /\ Len(events) = 2
    /\ res.kind \in ProductWrites
    /\ productsCache = <<>> /\ cacheTimestamp = 0
    /\ clock > 0
    /\ Len(reqs) = 1
    /\ reqs[1].kind = "GET /api/products" /\ reqs[1].pc = "await" /\ reqs[1].floor = 2

\* C18: every published event corresponds to a change the Store made: an
\* event is published only in the step that answers a request whose Store
\* operation succeeded and matched a record; an update or a delete of an
\* order or a tracking record whose key no record has publishes nothing.
EventsFollowStoreChanges ==
    [][events' # events => (Responds /\ res'.result # <<>>)]_vars

\* C19: the product-updated events of concurrent patches of one product
\* are published in the order the Store applied the patches, so that, once
\* no patch is waiting, the event published last carries the product as it
\* is stored.
PatchEventsInStoreOrder ==
    [][(/\ Responds /\ res'.kind = "PATCH /api/products/:id" /\ res'.status = 200
        /\ reqs' = <<>>)
          => LastEvent(events').payload =
                Transform(Stored(products, LastEvent(events').payload._id))]_vars

OrderAndTrackingKinds ==
    {"GET /api/orders", "POST /api/orders", "PUT /api/orders/:orderId",
     "DELETE /api/orders/:orderId", "GET /api/tracking", "POST /api/tracking",
     "PUT /api/tracking/:qrId", "DELETE /api/tracking/:qrId"}

\* This step is a step of a request of one of the kinds: the request is
\* received, its Store call settles, or it is answered.
StepOf(kinds) ==
    \/ Responds /\ res'.kind \in kinds
    \/ /\ issued' = issued + 1
       /\ Len(reqs') = Len(reqs) + 1
       /\ reqs'[Len(reqs')].kind \in kinds
    \/ \E r \in 1..Len(reqs) :
          /\ Len(reqs') = Len(reqs)
          /\ reqs[r].kind \in kinds
          /\ reqs'[r] # reqs[r]

\* C20: only product handlers touch the product cache: no step of an order
\* or tracking operation (list, create, update, delete) changes the cache
\* slot or its timestamp, and none publishes a product event.
OrdersLeaveCacheAlone ==
    [][StepOf(OrderAndTrackingKinds) =>
          /\ UNCHANGED <<productsCache, cacheTimestamp, products>>
          /\ events' # events => LastEvent(events').kind \notin ProductEvents]_vars

\* C20 witness: an order was created, and its event published, while the
\* cache held the snapshot a product list read had installed.
OrdersLeaveCacheAloneWitness ==
    /\ res.kind = "POST /api/orders" /\ res.status = 200
    /\ productsCache # <<>>
    /\ orders # {}
    /\ events # <<>> /\ LastEvent(events).kind = "order-added"

====
